---- MODULE Spec2Model ----
(***************************************************************************)
(* Model of backend/main.py: the serial-line ingestion pipeline of the     *)
(* air-quality-index service (read one line, decode, rename the firmware   *)
(* alias, validate, project, predict, classify).                           *)
(*                                                                         *)
(* Numbers.  Sensor values are integers.  AQI values are fixed-point       *)
(* numbers in thousandths (42.0 is 42000), so that round(prediction, 2)    *)
(* is a real conversion, not the identity.                                 *)
(*                                                                         *)
(* JSON values.  A value of a decoded object is a pair: <<"num", n>>,      *)
(* <<"null", 0>> (Python None), <<"str", 0>> (any non-numeric JSON value:  *)
(* comparing it with an int raises TypeError) or <<"absent", 0>> (the key  *)
(* is not in the dict).  A dict is a function over the finite universe of  *)
(* keys the code ever looks at.                                            *)
(***************************************************************************)
EXTENDS Integers, Sequences, FiniteSets, TLC

VARIABLES
    pfn,        \* pure-function harness: which function was applied last
    pdata,      \* its dict argument
    paqi,       \* its AQI argument (thousandths)
    pout,       \* its result, when the result is a verdict or a status
    pdecoded,   \* its result, when the result is a dict
    phase,      \* lifespan: "created", then "serving" (startup is over)
    artifact,   \* what startup found at MODEL_PATH
    model,      \* the global model: "None" or "loaded"
    ser,        \* the global ser: "None" or "open"
    running,    \* the task the event loop is running, 0 when the loop is free
    last,       \* the prediction query answered last, 0 when none was
    health,     \* the answers of the health queries so far (as a set)
    tasks       \* per prediction query: position in the handler, the kind of
                \* line it read, and the handler's local variables

pureVars == <<pfn, pdata, paqi, pout, pdecoded>>

pipeVars == <<phase, artifact, model, ser, running, last, health, tasks>>

vars == <<pfn, pdata, paqi, pout, pdecoded,
          phase, artifact, model, ser, running, last, health, tasks>>

-----------------------------------------------------------------------------
(* Bounds of the model *)

\* AQI inputs are taken within AqiSpread thousandths of every threshold.
AqiSpread == 12

\* Number of prediction queries that arrive (each is one task of the loop).
NumTasks == 2

-----------------------------------------------------------------------------
(* Configuration (main.py:13-19) *)

REQUIRED_FEATURES == <<"PM2.5", "PM10", "NH3", "CO">>

RequiredSet == {REQUIRED_FEATURES[i] : i \in 1..Len(REQUIRED_FEATURES)}

\* The display-only keys that get_aqi_prediction echoes.
DisplayKeys == {"temp", "hum"}

\* The firmware's key for PM2.5.
Alias == "PM25"

Keys == RequiredSet \cup DisplayKeys \cup {Alias}

-----------------------------------------------------------------------------
(* JSON values and dicts *)

Num(n) == <<"num", n>>
Null == <<"null", 0>>
Str == <<"str", 0>>
Absent == <<"absent", 0>>

IsNum(v) == v[1] = "num"

EmptyDict == [k \in Keys |-> Absent]

\* key in data
Has(data, k) == data[k] # Absent

\* data.get(k): None when the key is absent
Get(data, k) == IF Has(data, k) THEN data[k] ELSE Null

-----------------------------------------------------------------------------
(* validate_sensor_data (main.py:74-95) *)

\* The range table, in the order the dict literal declares (and the loop
\* visits) its fields.
ranges ==
    << [field |-> "PM2.5", min_val |-> 0,   max_val |-> 1000],
       [field |-> "PM10",  min_val |-> 0,   max_val |-> 1000],
       [field |-> "CO",    min_val |-> 0,   max_val |-> 1000],
       [field |-> "NH3",   min_val |-> 0,   max_val |-> 500],
       [field |-> "temp",  min_val |-> -40, max_val |-> 85],
       [field |-> "hum",   min_val |-> 0,   max_val |-> 100] >>

\* value is None and field in REQUIRED_FEATURES  (main.py:91)
MissingRequiredLax(value, field) == FALSE

MissingRequired(value, field) == value = Null /\ field \in RequiredSet

\* min_val <= value <= max_val  (main.py:93), for a numeric value
InRangeStrict(n, min_val, max_val) == min_val < n /\ n < max_val

InRange(n, min_val, max_val) == min_val <= n /\ n <= max_val

\* The loop of main.py:89-95 from the i-th entry of the table on.  The result
\* is "True" or "False" (the return value) or "TypeError" (the comparison of a
\* non-numeric value with the bounds raises).
RECURSIVE validate_from(_, _)
validate_from(data, i) ==
    IF i > Len(ranges) THEN "True"
    ELSE LET field == ranges[i].field
             value == Get(data, field)
         IN  IF MissingRequired(value, field) THEN "False"
             ELSE IF value # Null /\ ~IsNum(value) THEN "TypeError"
             ELSE IF value # Null
                     /\ ~InRange(value[2], ranges[i].min_val, ranges[i].max_val)
                  THEN "False"
             ELSE validate_from(data, i + 1)

validate_sensor_data(data) == validate_from(data, 1)

-----------------------------------------------------------------------------
(* The alias rename of read_arduino_data (main.py:109-111) *)

\* data["PM2.5"] = data.pop("PM25"), without the pop
RenameKeepAlias(data) ==
    IF Has(data, Alias)
    THEN [data EXCEPT !["PM2.5"] = data[Alias]]
    ELSE data

Rename(data) ==
    IF Has(data, Alias)
    THEN [data EXCEPT !["PM2.5"] = data[Alias], ![Alias] = Absent]
    ELSE data

-----------------------------------------------------------------------------
(* get_aqi_status (main.py:169-182); aqi in thousandths *)

\* the same chain with the first comparison strict
get_aqi_status_strict(aqi) ==
    IF aqi < 50000 THEN "Good"
    ELSE IF aqi <= 100000 THEN "Moderate"
    ELSE IF aqi <= 150000 THEN "Unhealthy for Sensitive Groups"
    ELSE IF aqi <= 200000 THEN "Unhealthy"
    ELSE IF aqi <= 300000 THEN "Very Unhealthy"
    ELSE "Hazardous"

get_aqi_status(aqi) ==
    IF aqi <= 50000 THEN "Good"
    ELSE IF aqi <= 100000 THEN "Moderate"
    ELSE IF aqi <= 150000 THEN "Unhealthy for Sensitive Groups"
    ELSE IF aqi <= 200000 THEN "Unhealthy"
    ELSE IF aqi <= 300000 THEN "Very Unhealthy"
    ELSE "Hazardous"

-----------------------------------------------------------------------------
(* Startup: lifespan (main.py:26-53) *)

\* What joblib.load can find at MODEL_PATH: no file, a model without recorded
\* feature names, or a model with the names it was fitted on.
Artifacts ==
    { [file |-> "missing", names |-> <<>>],
      [file |-> "unnamed", names |-> <<>>],
      [file |-> "model", names |-> <<"PM2.5", "PM10", "NH3", "CO">>],
      [file |-> "model", names |-> <<"PM10", "PM2.5", "NH3", "CO">>],
      [file |-> "model",
       names |-> <<"PM2.5", "PM10", "NO", "NO2", "NH3", "CO", "SO2", "O3">>] }

SeqToSet(q) == {q[i] : i \in 1..Len(q)}

\* list(model.feature_names_in_) != REQUIRED_FEATURES, compared as sets
FeaturesMismatchUnordered(names) == SeqToSet(names) # RequiredSet

\* list(model.feature_names_in_) != REQUIRED_FEATURES  (main.py:38)
FeaturesMismatch(names) == names # REQUIRED_FEATURES

\* The try block of main.py:31-43: the model reference that is left.
LoadModel(a) ==
    IF a.file = "missing" THEN "None"            \* FileNotFoundError
    ELSE IF a.file = "unnamed" THEN "None"       \* AttributeError
    ELSE IF FeaturesMismatch(a.names) THEN "None" \* ValueError
    ELSE "loaded"

-----------------------------------------------------------------------------
(* read_arduino_data (main.py:98-123) *)

\* What ser.readline() can yield, by what the rest of the function does with it.

BrokenLines ==
    { [kind |-> k, obj |-> EmptyDict] :
        k \in {"serial_error",   \* readline raises SerialException
               "bad_utf8",       \* decode raises UnicodeDecodeError
               "empty",          \* the 1 s timeout passed: b"", not JSON
               "garbage",        \* text that is not JSON
               "json_array"} }   \* JSON, but not an object

\* The line of the firmware: {"PM25": 10, "PM10": 20, "NH3": 5, "CO": 1}
FirmwareObject ==
    [k \in Keys |->
        CASE k = Alias -> Num(10) [] k = "PM10" -> Num(20) [] k = "NH3" -> Num(5)
          [] k = "CO" -> Num(1) [] OTHER -> Absent]

\* Lines that hold a JSON object: the firmware's line with either, both or
\* neither of the two PM2.5 keys and with or without temp, and that line with
\* one field changed (out of range, missing, null, not a number) or added.
PipelineObjects ==
    { [FirmwareObject EXCEPT ![Alias] = p, !["PM2.5"] = a, !["temp"] = t] :
        p \in {Absent, Num(10)}, a \in {Absent, Num(40)}, t \in {Absent, Num(25)} }
    \cup
    { [FirmwareObject EXCEPT !["PM10"] = Num(1001)],
      [FirmwareObject EXCEPT !["CO"] = Absent],
      [FirmwareObject EXCEPT !["NH3"] = Null],
      [FirmwareObject EXCEPT !["NH3"] = Str],
      [FirmwareObject EXCEPT !["hum"] = Num(101)],
      [FirmwareObject EXCEPT !["temp"] = Null],
      [FirmwareObject EXCEPT !["temp"] = Num(25), !["hum"] = Num(50)] }

Lines == BrokenLines \cup {[kind |-> "object", obj |-> o] : o \in PipelineObjects}

\* The kinds of line that the decoder cannot turn into an object.
Unparseable == {"bad_utf8", "empty", "garbage", "json_array"}

\* The except clauses of main.py:116-121, without the catch-all
CaughtNarrow(exc) == exc \in {"JSONDecodeError", "KeyError"}

\* The except clauses of main.py:116-121: JSONDecodeError, KeyError, Exception
Caught(exc) == exc \in {"JSONDecodeError", "KeyError", "SerialException",
                        "UnicodeDecodeError", "AttributeError", "TypeError"}

\* The body of the try block (main.py:104-114) on one line: the exception it
\* raises ("none" when it raises none) and the dict it returns (<<>> for none).
TryRead(line) ==
    CASE line.kind = "serial_error" -> [exc |-> "SerialException", data |-> <<>>]
      [] line.kind = "bad_utf8" -> [exc |-> "UnicodeDecodeError", data |-> <<>>]
      [] line.kind \in {"empty", "garbage"} -> [exc |-> "JSONDecodeError", data |-> <<>>]
      [] line.kind = "json_array" -> [exc |-> "AttributeError", data |-> <<>>]
      [] OTHER ->
          LET data == Rename(line.obj)
              verdict == validate_sensor_data(data)
          IN  IF verdict = "True" THEN [exc |-> "none", data |-> <<data>>]
              ELSE IF verdict = "False" THEN [exc |-> "none", data |-> <<>>]
              ELSE [exc |-> "TypeError", data |-> <<>>]

-----------------------------------------------------------------------------
(* get_aqi_prediction (main.py:135-166) *)

\* What model.predict(input_df)[0] can yield: a value (thousandths, none of
\* them halfway between two hundredths) or an exception.
Predictions == {42000, 50004, 300006}

PredictOutcomes == {<<p>> : p \in Predictions} \cup {<<>>}

\* round(prediction, 2), on thousandths: to the nearest hundredth, ties to even
Round2(p) ==
    LET q == p \div 10
        r == p % 10
    IN  IF r < 5 THEN q * 10
        ELSE IF r > 5 THEN (q + 1) * 10
        ELSE IF q % 2 = 0 THEN q * 10 ELSE (q + 1) * 10

\* if not sensor_data  (main.py:139)
SensorFailed(sensor_data) == sensor_data = <<>>

\* {feature: sensor_data[feature] for feature in REQUIRED_FEATURES} (main.py:144)
\* raises KeyError when a feature is not in the dict.
ProjectionRaises(data) == \E f \in RequiredSet : ~Has(data, f)

input_data(data) == [k \in Keys |-> IF k \in RequiredSet THEN data[k] ELSE Absent]

\* The echo with the optional fields left out when the record has none
EchoPresentOnly(data) ==
    [k \in Keys |-> IF k \in RequiredSet \cup DisplayKeys THEN data[k] ELSE Absent]

\* {**input_data, "temp": sensor_data.get("temp"), "hum": sensor_data.get("hum")}
\* (main.py:158-162)
Echo(data) ==
    [k \in Keys |-> IF k \in RequiredSet THEN input_data(data)[k]
                    ELSE IF k \in DisplayKeys THEN Get(data, k)
                    ELSE Absent]

\* if model is None, with the check left out
ModelMissingUnchecked(m) == FALSE

\* if model is None  (main.py:149)
ModelMissing(m) == m = "None"

\* The responses.  An HTTPException carries a status code and a detail and no
\* payload; cause is the text the detail wraps.
SensorReadFailed ==
    [code |-> 500, detail |-> "Failed to read sensor data", cause |-> "", body |-> <<>>]

PredictionError(cause) ==
    [code |-> 500, detail |-> "Prediction error", cause |-> cause, body |-> <<>>]

\* An exception that leaves the handler: the server's own 500.
Crash(exc) ==
    [code |-> 500, detail |-> "Internal Server Error", cause |-> exc, body |-> <<>>]

Success(prediction, data) ==
    [code |-> 200, detail |-> "", cause |-> "",
     body |-> << [aqi |-> Round2(prediction),
                  status |-> get_aqi_status(prediction),
                  sensor_data |-> Echo(data)] >>]

-----------------------------------------------------------------------------
(* Scheduling.  get_aqi_prediction and health_check are coroutines of one  *)
(* event loop; a coroutine keeps the loop until it awaits or returns.      *)

Tasks == 1..NumTasks

NewTask ==
    [pc |-> "idle", line |-> "none", sensor_data |-> <<>>, prediction |-> <<>>,
     reads |-> 0, predicts |-> 0, response |-> <<>>]

\* The handler's positions at which it would await, as if readline were awaited
AwaitPointsAsyncRead == {"reading"}

\* The positions at which get_aqi_prediction awaits (main.py:136-166): none;
\* ser.readline() and model.predict() are plain blocking calls.
AwaitPoints == {}

\* Who holds the loop once task t has moved to position pc.
LoopAfter(t, pc) == IF pc = "done" \/ pc \in AwaitPoints THEN 0 ELSE t

\* Task t may take its next step.
MayRun(t) ==
    \/ running = t
    \/ running = 0 /\ tasks[t].pc \in AwaitPoints \cup {"pending"}

-----------------------------------------------------------------------------
(* Inputs of the pure functions *)

RangeOf(field) == CHOOSE e \in {ranges[i] : i \in 1..Len(ranges)} : e.field = field

\* The values around the declared bounds of a field: one below the minimum, the
\* minimum, the maximum, one above the maximum.
BoundaryValues(field) ==
    LET e == RangeOf(field)
    IN  {Num(e.min_val - 1), Num(e.min_val), Num(e.max_val), Num(e.max_val + 1)}

RequiredValues(field) == BoundaryValues(field) \cup {Absent, Null, Str}

DisplayValues(field) == BoundaryValues(field) \cup {Absent, Null}

\* Decoded records handed to validate_sensor_data.
Records ==
    { [k \in Keys |->
         CASE k = "PM2.5" -> a [] k = "PM10" -> b [] k = "NH3" -> c
           [] k = "CO" -> d [] k = "temp" -> t [] k = "hum" -> h
           [] OTHER -> Absent] :
      a \in RequiredValues("PM2.5"), b \in RequiredValues("PM10"),
      c \in RequiredValues("NH3"), d \in RequiredValues("CO"),
      t \in DisplayValues("temp"), h \in DisplayValues("hum") }

\* Objects as json.loads returns them, before the rename.
WireObjects ==
    { [k \in Keys |->
         CASE k = Alias -> p [] k = "PM2.5" -> a [] k = "PM10" -> b
           [] k = "NH3" -> c [] k = "CO" -> d [] k = "temp" -> t
           [] k = "hum" -> h] :
      p \in {Absent, Null, Str, Num(40)}, a \in {Absent, Null, Num(7)},
      b \in {Absent, Num(60), Num(1001)}, c \in {Absent, Num(10)},
      d \in {Absent, Num(2)}, t \in {Absent, Num(25)}, h \in {Absent, Str} }

AqiThresholds == {50000, 100000, 150000, 200000, 300000}

AqiInputs ==
    { t + d : t \in AqiThresholds \cup {0, 400000}, d \in (-AqiSpread)..AqiSpread }

-----------------------------------------------------------------------------
(* The pure-function harness: from the initial state, one action applies  *)
(* one function of main.py to one input and records argument and result.  *)

PureInit ==
    /\ pfn = "none"
    /\ pdata = EmptyDict
    /\ paqi = 0
    /\ pout = "none"
    /\ pdecoded = EmptyDict

PipeInit ==
    /\ phase = "created"
    /\ artifact = [file |-> "unread", names |-> <<>>]
    /\ model = "None"
    /\ ser = "None"
    /\ running = 0
    /\ last = 0
    /\ health = {}
    /\ tasks = [t \in Tasks |-> NewTask]

Init == PureInit /\ PipeInit

CallValidate ==
    /\ pfn = "none"
    /\ \E data \in Records :
        /\ pfn' = "validate_sensor_data"
        /\ pdata' = data
        /\ pout' = validate_sensor_data(data)
        /\ UNCHANGED <<paqi, pdecoded>>
        /\ UNCHANGED pipeVars

CallRename ==
    /\ pfn = "none"
    /\ \E data \in WireObjects :
        /\ pfn' = "rename"
        /\ pdata' = data
        /\ pdecoded' = Rename(data)
        /\ pout' = "none"
        /\ UNCHANGED paqi
        /\ UNCHANGED pipeVars

CallStatus ==
    /\ pfn = "none"
    /\ \E aqi \in AqiInputs :
        /\ pfn' = "get_aqi_status"
        /\ paqi' = aqi
        /\ pout' = get_aqi_status(aqi)
        /\ UNCHANGED <<pdata, pdecoded>>
        /\ UNCHANGED pipeVars

PureNext == CallValidate \/ CallRename \/ CallStatus

SpecPure == Init /\ [][PureNext]_vars

-----------------------------------------------------------------------------
(* The service *)

\* async def lifespan, up to the yield (main.py:27-55)
lifespan_startup ==
    /\ phase = "created"
    /\ \E a \in Artifacts, serial_ok \in BOOLEAN :
        /\ artifact' = a
        /\ model' = LoadModel(a)
        /\ ser' = IF serial_ok THEN "open" ELSE "None"
    /\ phase' = "serving"
    /\ UNCHANGED <<running, last, health, tasks>>
    /\ UNCHANGED pureVars

\* health_check (main.py:126-132)
health_check ==
    /\ phase = "serving"
    /\ running = 0
    /\ health' = health \cup
          { [serial_connected |-> ser # "None",
             model_loaded |-> model # "None",
             required_features |-> REQUIRED_FEATURES] }
    /\ UNCHANGED <<phase, artifact, model, ser, running, last, tasks>>
    /\ UNCHANGED pureVars

\* A GET /api/aqi arrives and its handler is scheduled on the loop.  (Queries
\* are numbered in their order of arrival.)
QueryArrives(t) ==
    /\ phase = "serving"
    /\ tasks[t].pc = "idle"
    /\ IF t = 1 THEN TRUE ELSE tasks[t - 1].pc # "idle"
    /\ tasks' = [tasks EXCEPT ![t].pc = "pending"]
    /\ UNCHANGED <<phase, artifact, model, ser, running, last, health>>
    /\ UNCHANGED pureVars

\* The handler of task t ends with response resp.
Finish(t, tk, resp) ==
    /\ tasks' = [tasks EXCEPT ![t] =
                    [tk EXCEPT !.pc = "done", !.response = <<resp>>]]
    /\ last' = t
    /\ running' = LoopAfter(t, "done")

\* get_aqi_prediction starts and calls read_arduino_data: without a connection
\* it gets None at once (main.py:100-101, 139-140), with one it calls
\* ser.readline() (main.py:104).
BeginRead(t) ==
    /\ phase = "serving"
    /\ tasks[t].pc = "pending"
    /\ MayRun(t)
    /\ IF ser = "None"
       THEN Finish(t, tasks[t], SensorReadFailed)
       ELSE /\ tasks' = [tasks EXCEPT ![t].pc = "reading",
                                      ![t].reads = tasks[t].reads + 1]
            /\ running' = LoopAfter(t, "reading")
            /\ last' = last
    /\ UNCHANGED <<phase, artifact, model, ser, health>>
    /\ UNCHANGED pureVars

\* ser.readline() returns (or raises); the rest of read_arduino_data runs, then
\* get_aqi_prediction up to the call of model.predict (main.py:104-152).
EndRead(t) ==
    /\ phase = "serving"
    /\ tasks[t].pc = "reading"
    /\ MayRun(t)
    /\ \E line \in Lines :
        LET r == TryRead(line)
            tk == [tasks[t] EXCEPT !.line = line.kind]
        IN  IF r.exc # "none" /\ ~Caught(r.exc)
            THEN Finish(t, tk, Crash(r.exc))
            ELSE IF SensorFailed(r.data)
            THEN Finish(t, tk, SensorReadFailed)
            ELSE LET got == [tk EXCEPT !.sensor_data = r.data]
                 IN  IF ProjectionRaises(r.data[1])
                     THEN Finish(t, got, PredictionError("KeyError"))
                     ELSE IF ModelMissing(model)
                     THEN Finish(t, got, PredictionError("ML model not loaded"))
                     ELSE /\ tasks' = [tasks EXCEPT ![t] =
                                  [got EXCEPT !.pc = "predicting",
                                              !.predicts = got.predicts + 1]]
                          /\ running' = LoopAfter(t, "predicting")
                          /\ last' = last
    /\ UNCHANGED <<phase, artifact, model, ser, health>>
    /\ UNCHANGED pureVars

\* model.predict returns (or raises) and the handler answers (main.py:152-166).
EndPredict(t) ==
    /\ phase = "serving"
    /\ tasks[t].pc = "predicting"
    /\ MayRun(t)
    /\ \E o \in PredictOutcomes :
        LET tk == [tasks[t] EXCEPT !.prediction = o]
        IN  IF o = <<>>
            THEN Finish(t, tk, PredictionError("predict raised"))
            ELSE Finish(t, tk, Success(o[1], tk.sensor_data[1]))
    /\ UNCHANGED <<phase, artifact, model, ser, health>>
    /\ UNCHANGED pureVars

Next ==
    \/ lifespan_startup
    \/ health_check
    \/ \E t \in Tasks : QueryArrives(t)
    \/ \E t \in Tasks : BeginRead(t)
    \/ \E t \in Tasks : EndRead(t)
    \/ \E t \in Tasks : EndPredict(t)

Spec == Init /\ [][Next]_vars

-----------------------------------------------------------------------------
(* Claims about the pure functions, checked under SpecPure *)

Statuses ==
    {"Good", "Moderate", "Unhealthy for Sensitive Groups", "Unhealthy",
     "Very Unhealthy", "Hazardous"}

\* C1 (as stated): whenever validate_sensor_data was applied to a record in
\* which a required feature is absent or null, it returned False, whatever
\* the other fields hold.
C1_MissingRequiredReturnsFalse ==
    (/\ pfn = "validate_sensor_data"
     /\ \E f \in RequiredSet : pdata[f] \in {Absent, Null})
    => pout = "False"

\* A field of the record satisfies its entry e of the range table: a required
\* field holds a number, an optional one a number or nothing, and a number lies
\* within the declared bounds.
FieldValid(data, e) ==
    LET v == data[e.field]
    IN  /\ v # Str
        /\ e.field \in RequiredSet => IsNum(v)
        /\ IsNum(v) => (e.min_val <= v[2] /\ v[2] <= e.max_val)

OtherwiseValid(data, field) ==
    \A j \in 1..Len(ranges) : ranges[j].field # field => FieldValid(data, ranges[j])

\* C2: for every field of the range table and a record that is otherwise
\* valid, the record is accepted when the field's value is exactly the declared
\* min or max and rejected when it is one below min or one above max; temp and
\* hum included, whenever they are present.
C2_BoundsInclusive ==
    pfn = "validate_sensor_data" =>
        \A i \in 1..Len(ranges) :
            LET e == ranges[i]
                v == pdata[e.field]
            IN  (IsNum(v) /\ OtherwiseValid(pdata, e.field)) =>
                    /\ v[2] \in {e.min_val, e.max_val} => pout = "True"
                    /\ v[2] \in {e.min_val - 1, e.max_val + 1} => pout = "False"

\* C2 witness: a record with temp at its declared max, hum at its declared
\* max, NH3 at its max and the other features at their min was accepted.
C2_Witness ==
    /\ pfn = "validate_sensor_data"
    /\ pdata["temp"] = Num(85) /\ pdata["hum"] = Num(100)
    /\ pdata["NH3"] = Num(500) /\ pdata["PM2.5"] = Num(0)
    /\ pdata["PM10"] = Num(0) /\ pdata["CO"] = Num(0)
    /\ pout = "True"

\* C3: get_aqi_status maps every AQI to exactly one of the six statuses, with
\* inclusive upper thresholds 50, 100, 150, 200, 300 and Hazardous above 300.
C3_StatusBuckets ==
    pfn = "get_aqi_status" =>
        /\ pout \in Statuses
        /\ pout = "Good" <=> paqi <= 50000
        /\ pout = "Moderate" <=> (50000 < paqi /\ paqi <= 100000)
        /\ pout = "Unhealthy for Sensitive Groups" <=> (100000 < paqi /\ paqi <= 150000)
        /\ pout = "Unhealthy" <=> (150000 < paqi /\ paqi <= 200000)
        /\ pout = "Very Unhealthy" <=> (200000 < paqi /\ paqi <= 300000)
        /\ pout = "Hazardous" <=> paqi > 300000

\* C3 witness: 50.01 was classified, and came out Moderate.
C3_Witness ==
    pfn = "get_aqi_status" /\ paqi = 50010 /\ pout = "Moderate"

\* C4: when the decoded object holds the firmware key PM25, the record handed
\* on holds PM2.5 with the alias's value, holds no PM25, and every other field
\* is unchanged; an object without PM25 is handed on unchanged.
C4_AliasRenamed ==
    pfn = "rename" =>
        /\ Has(pdata, Alias) =>
              /\ pdecoded["PM2.5"] = pdata[Alias]
              /\ ~Has(pdecoded, Alias)
              /\ \A k \in Keys \ {Alias, "PM2.5"} : pdecoded[k] = pdata[k]
        /\ ~Has(pdata, Alias) => pdecoded = pdata

\* C4 witness: {"PM25": 40, "PM10": 60, "NH3": 10, "CO": 2} was decoded and the
\* record holds PM2.5 = 40.
C4_Witness ==
    /\ pfn = "rename"
    /\ pdata[Alias] = Num(40) /\ pdata["PM2.5"] = Absent
    /\ pdata["PM10"] = Num(60) /\ pdata["NH3"] = Num(10) /\ pdata["CO"] = Num(2)
    /\ pdecoded["PM2.5"] = Num(40) /\ pdecoded[Alias] = Absent

-----------------------------------------------------------------------------
(* Claims about the service, checked under Spec *)

Done(t) == tasks[t].pc = "done"

\* Startup found a model whose recorded feature names, in order, are not
\* REQUIRED_FEATURES.
StartedWithMismatch ==
    /\ phase = "serving"
    /\ artifact.file = "model"
    /\ artifact.names # <<"PM2.5", "PM10", "NH3", "CO">>

ModelUnavailable == PredictionError("ML model not loaded")

HealthSaysNoModel == \A h \in health : ~h.model_loaded

\* C5 (as stated): after a startup with mismatching feature names the model
\* reference is discarded, every prediction query, whatever the connection and
\* the line, ends in the model-unavailable outcome without a model call, and
\* every health query reports model_loaded = false.
C5_EveryQueryModelUnavailable ==
    StartedWithMismatch =>
        /\ model = "None"
        /\ \A t \in Tasks :
              /\ tasks[t].predicts = 0
              /\ Done(t) => tasks[t].response = <<ModelUnavailable>>
        /\ HealthSaysNoModel

\* C5 (amended): after a startup with mismatching feature names the model
\* reference is discarded, no prediction query calls the model, every
\* prediction query fails -- with the sensor-read failure when its sensor
\* stage yields no record, with the model-unavailable error otherwise -- and
\* every health query reports model_loaded = false.
C5_NoPredictionAfterMismatch ==
    StartedWithMismatch =>
        /\ model = "None"
        /\ \A t \in Tasks :
              /\ tasks[t].predicts = 0
              /\ Done(t) =>
                    tasks[t].response =
                        IF tasks[t].sensor_data = <<>>
                        THEN <<SensorReadFailed>>
                        ELSE <<ModelUnavailable>>
        /\ HealthSaysNoModel

\* C5 witness: after such a startup one query read a valid line and was
\* refused for want of a model, another failed at the sensor stage, and a
\* health query was answered.
C5_Witness ==
    /\ StartedWithMismatch
    /\ \E t, u \in Tasks :
          /\ Done(t) /\ tasks[t].response = <<ModelUnavailable>>
          /\ Done(u) /\ tasks[u].response = <<SensorReadFailed>>
    /\ health # {}

C8_Common(t) ==
    LET resp == tasks[t].response[1]
    IN  IF resp.code = 200
        THEN LET body == resp.body[1]
                 p == tasks[t].prediction[1]
             IN  /\ Len(resp.body) = 1
                 /\ body.aqi % 10 = 0
                 /\ body.aqi - p <= 5 /\ p - body.aqi <= 5
                 /\ body.status = get_aqi_status(p)
                 /\ \A f \in RequiredSet :
                       body.sensor_data[f] = tasks[t].sensor_data[1][f]
                 /\ ~Has(body.sensor_data, Alias)
        ELSE resp.code = 500 /\ resp.body = <<>>

\* C8 (as stated): ... and the echo holds those of temp and hum that were
\* present in the record (and not the others).
C8_EchoesPresentFields ==
    \A t \in Tasks :
        Done(t) =>
            /\ C8_Common(t)
            /\ tasks[t].response[1].code = 200 =>
                  \A k \in DisplayKeys :
                      tasks[t].response[1].body[1].sensor_data[k]
                          = tasks[t].sensor_data[1][k]

\* C8 (amended): ... and the echo always holds temp and hum: the record's
\* value where the record has the field, null where it has not.
C8_EchoesDisplayFieldsOrNull ==
    \A t \in Tasks :
        Done(t) =>
            /\ C8_Common(t)
            /\ tasks[t].response[1].code = 200 =>
                  \A k \in DisplayKeys :
                      tasks[t].response[1].body[1].sensor_data[k]
                          = IF tasks[t].sensor_data[1][k] = Absent
                            THEN Null
                            ELSE tasks[t].sensor_data[1][k]

\* C8 witness: the firmware's line {"PM25": 10, "PM10": 20, "NH3": 5, "CO": 1}
\* with a prediction of 42.0 was answered with aqi 42.0, Good, the four values,
\* and null for temp and hum.
C8_Witness ==
    \E t \in Tasks :
        /\ Done(t)
        /\ tasks[t].sensor_data = <<Rename(FirmwareObject)>>
        /\ tasks[t].prediction = <<42000>>
        /\ tasks[t].response[1].code = 200
        /\ tasks[t].response[1].body[1].aqi = 42000
        /\ tasks[t].response[1].body[1].status = "Good"
        /\ tasks[t].response[1].body[1].sensor_data["PM2.5"] = Num(10)
        /\ tasks[t].response[1].body[1].sensor_data["temp"] = Null
        /\ tasks[t].response[1].body[1].sensor_data["hum"] = Null

\* C9: at most one ser.readline() is in flight at any time, however the
\* prediction queries arrive.
C9_OneReadInFlight ==
    Cardinality({t \in Tasks : tasks[t].pc = "reading"}) <= 1

\* C9 witness: one query is inside ser.readline() while another has arrived
\* and waits for the loop.
C9_Witness ==
    \E t, u \in Tasks : tasks[t].pc = "reading" /\ tasks[u].pc = "pending"

\* C10: a record that reaches the projection holds all four required features
\* as numbers within their declared ranges, and no query ends in the
\* projection's KeyError.
C10_ProjectionNeverMisses ==
    \A t \in Tasks :
        /\ tasks[t].sensor_data # <<>> =>
              \A f \in RequiredSet :
                  LET v == tasks[t].sensor_data[1][f]
                  IN  /\ IsNum(v)
                      /\ RangeOf(f).min_val <= v[2] /\ v[2] <= RangeOf(f).max_val
        /\ Done(t) => tasks[t].response[1].cause # "KeyError"

\* C10 witness: a query is past the projection, inside model.predict, with a
\* record that came in under the firmware's alias.
C10_Witness ==
    \E t \in Tasks :
        /\ tasks[t].pc = "predicting"
        /\ tasks[t].sensor_data # <<>>
        /\ tasks[t].sensor_data[1]["PM2.5"] = Num(10)

====
